---- MODULE Spec2Model ----
(***************************************************************************)
(* Marzipano input-control engine (class Controls), modelled as a state   *)
(* machine.  One action per public operation or event handler; the body   *)
(* of every method is an operator on an "operation state" record o, so    *)
(* that a method calling another method is operator composition.  Besides *)
(* the engine's fields, o carries what a caller and the listeners observe *)
(* of one call: o.err, the error thrown (NoErr on normal return), and     *)
(* o.trace, the changes of the counter and the emitted events in order,   *)
(* each with the engine state at that point.                              *)
(*                                                                         *)
(* Method ids stand for the string keys of this._methods ("keyboard",     *)
(* "touch", ...): a JavaScript object enumerates such keys in insertion   *)
(* order, hence _methods is a sequence of records in insertion order.     *)
(***************************************************************************)
EXTENDS Integers, Sequences, FiniteSets, TLC

\* ---------------------------------------------------------------- bounds
NumIds == 2
NumInstances == 2
NumGroups == 1
MaxGroupLen == 2
NumLoops == 2
NumViews == 3
MaxLayers == 2
NumOffsets == 2
MaxTime == 4
MaxDuration == 2
MaxLevels == 4
MaxHotspots == 5
MaxReentrantCalls == 1  \* calls a listener makes back into the engine per operation

Ids == 1..NumIds
Instances == 1..NumInstances
GroupIds == 1..NumGroups
Loops == 1..NumLoops
Views == 1..NumViews
Offsets == 1..NumOffsets

NoId == 0
NoErr == "none"
NoGroup == <<0>>
NoLoop == 0
NoHandler == 0
\* Timer: null for _startTime, null for _handle, and the default duration
NoTime == 0 - 1
NoTimeout == 0
Infinity == MaxTime + MaxDuration + 1
Durations == (0..MaxDuration) \cup {Infinity}

\* Layer: null for _fixedLevelIndex and for the level index argument
NoLevel == 0 - 2
ErrOutOfRange == "Level index out of range"

\* HotspotContainer: a hotspot that was not created by this container
ForeignHotspot == 0
ErrNoSuchHotspot == "No such hotspot"

ErrAlready == "Control method already registered with id"
ErrNoMethod == "No control method registered with id"
ErrBadId == "Bad method id"
ErrDisabledEvent == "Should not receive event from disabled control method"
ErrBadState == "Bad control state"
ErrTypeError == "TypeError"

VARIABLES
  methods,      \* this._methods: records in key insertion order
  enabled,      \* this._enabled
  activeCount,  \* this._activeCount
  composer,     \* instances held by this._composer
  subs,         \* per instance, the handler lists of its 'active' / 'inactive' events
  methodGroups, \* this._methodGroups
  debug,        \* MARZIPANODEBUG.controls
  shared,       \* history: two registered ids have held the same instance at once
  lastActivity, \* history: the last of 'active' / 'inactive' the engine has emitted,
                \* 'inactive' while it has emitted neither
  opts,         \* history: the argument the constructor was called with
  fresh         \* history: no operation has run since construction

vars ==
  <<methods, enabled, activeCount, composer, subs, methodGroups, debug, shared,
    lastActivity, opts, fresh>>

\* the engine's attachment to a render loop
VARIABLES
  _attachedRenderLoop,   \* this._attachedRenderLoop, NoLoop for null
  _beforeRenderHandler,  \* this._beforeRenderHandler: a bound function, NoHandler for null
  _changeHandler,        \* this._changeHandler: a bound function, NoHandler for null
  updatedViews_,         \* this.updatedViews_
  beforeRenderListeners, \* per render loop, the handler list of its 'beforeRender' event
  changeListeners,       \* the handler list of the Composer's 'change' event
  renderRequested,       \* per render loop, whether a frame has been requested
  destroyed              \* destroy() was called: the engine is no longer used

attachVars == <<_attachedRenderLoop, _beforeRenderHandler, _changeHandler, updatedViews_,
                beforeRenderListeners, changeListeners, renderRequested, destroyed>>

\* a Timer
VARIABLES
  now,         \* the clock read by now()
  _duration,   \* this._duration
  _startTime,  \* this._startTime, NoTime for null
  _handle,     \* this._handle: the id setTimeout returned, NoTimeout for null
  pending,     \* the host's timeouts that were set and neither cleared nor run
  timeouts,    \* history: 'timeout' events emitted since the last call of start()
  lastStart,   \* history: the time of the last call of start()
  afterStop,   \* history: stop() was called and start() was not called since
  lastCall,    \* history: the last call made, "restart" for start() while started
  epoch        \* history: flips with each call of start(), stop() or setDuration()

timerVars == <<now, _duration, _startTime, _handle, pending, timeouts, lastStart,
               afterStop, lastCall, epoch>>

\* a Layer
VARIABLES
  levelList,         \* this._geometry.levelList
  _fixedLevelIndex,  \* this._fixedLevelIndex, NoLevel for null
  levelEvents,       \* history: the 'fixedLevelChange' payloads of the last call
  levelErr,          \* history: the error thrown by the last call
  selectedLevel      \* history: what _selectLevel returned last, <<>> before

layerVars == <<levelList, _fixedLevelIndex, levelEvents, levelErr, selectedLevel>>

\* a HotspotContainer
VARIABLES
  _hotspots,          \* this._hotspots: hotspots, named by their order of creation
  created,            \* history: how many hotspots createHotspot has made
  destroyedHotspots,  \* history: the hotspots whose destroy() was called
  hotspotEvents,      \* history: the 'hotspotsChange' events of the last call
  hotspotErr,         \* history: the error thrown by the last call
  containerDestroyed  \* destroy() was called: the container is no longer used

hotspotVars == <<_hotspots, created, destroyedHotspots, hotspotEvents, hotspotErr,
                 containerDestroyed>>

\* ------------------------------------------------------------ helpers
\* handler lists of an event emitter: push on add, splice first match on remove
RECURSIVE IndexOf(_, _, _)
IndexOf(seq, x, i) ==
  IF i > Len(seq) THEN 0
  ELSE IF seq[i] = x THEN i
  ELSE IndexOf(seq, x, i + 1)

RemoveAt(seq, i) ==
  [j \in 1..(Len(seq) - 1) |-> IF j < i THEN seq[j] ELSE seq[j + 1]]

addEventListener(list, h) == Append(list, h)

removeEventListener(list, h) ==
  LET i == IndexOf(list, h, 1)
  IN IF i = 0 THEN list ELSE RemoveAt(list, i)

\* this._methods[id]: index of the record with key id, 0 when undefined
MethodIndex(ms, id) ==
  IF \E i \in 1..Len(ms) : ms[i].id = id
  THEN CHOOSE i \in 1..Len(ms) : ms[i].id = id
  ELSE 0

HasMethod(ms, id) == MethodIndex(ms, id) # 0

MethodRec(ms, id) == ms[MethodIndex(ms, id)]

\* delete this._methods[id]
DeleteMethod(ms, id) ==
  LET i == MethodIndex(ms, id)
  IN IF i = 0 THEN ms ELSE RemoveAt(ms, i)

\* Composer membership
composerHas(c, inst) == inst \in c
composerAdd(c, inst) == c \cup {inst}
composerRemove(c, inst) == c \ {inst}

\* the engine state proper, as a listener can query it
Core(o) ==
  [methods |-> o.methods, enabled |-> o.enabled, activeCount |-> o.activeCount,
   composer |-> o.composer, subs |-> o.subs]

\* one step of an operation: a change of the counter (k = "count") or an emitted
\* event (k = "emit"), with the engine state s at that point
Entry(k, ev, id, from, o) ==
  [k |-> k, ev |-> ev, id |-> id, from |-> from, s |-> Core(o)]

\* the methods of the engine, which a listener may call back into
RECURSIVE Call(_, _)

\* this.emit(ev, id): the engine's listeners are called with the state as it is now.
\* The listener of the operation, if it listens to ev and has calls left, calls
\* its method of the engine before emit returns; what it throws, emit throws
emit(o, ev, id) ==
  LET o1 == [o EXCEPT !.trace = Append(@, Entry("emit", ev, id, o.activeCount, o))]
  IN  IF o1.listener.ev = ev /\ o1.reentries < MaxReentrantCalls
      THEN Call([o1 EXCEPT !.reentries = @ + 1], o1.listener.op)
      ELSE o1

throw(o, msg) == [o EXCEPT !.err = msg]

\* statement sequencing: a thrown error skips the rest of the method
Then(o, F(_)) == IF o.err # NoErr THEN o ELSE F(o)

\* ------------------------------------------------------------ Controls
_checkActiveCount(o) ==
  LET count == Cardinality({i \in 1..Len(o.methods) :
                              o.methods[i].enabled /\ o.methods[i].active})
  IN IF count # o.activeCount THEN throw(o, ErrBadState) ELSE o

\* mutant: 'active' is emitted without looking at the engine-wide gate
_incrementActiveCount_ignoreGate(o) ==
  LET o1 == [o EXCEPT !.activeCount = @ + 1]
      o2 == [o1 EXCEPT !.trace = Append(@, Entry("count", "", NoId, o.activeCount, o1))]
      o3 == IF o2.debug THEN _checkActiveCount(o2) ELSE o2
  IN Then(o3, LAMBDA x :
       IF x.activeCount = 1 THEN emit(x, "active", NoId) ELSE x)

_incrementActiveCount(o) ==
  LET o1 == [o EXCEPT !.activeCount = @ + 1]
      o2 == [o1 EXCEPT !.trace = Append(@, Entry("count", "", NoId, o.activeCount, o1))]
      o3 == IF o2.debug THEN _checkActiveCount(o2) ELSE o2
  IN Then(o3, LAMBDA x :
       IF x.enabled /\ x.activeCount = 1 THEN emit(x, "active", NoId) ELSE x)

_decrementActiveCount(o) ==
  LET o1 == [o EXCEPT !.activeCount = @ - 1]
      o2 == [o1 EXCEPT !.trace = Append(@, Entry("count", "", NoId, o.activeCount, o1))]
      o3 == IF o2.debug THEN _checkActiveCount(o2) ELSE o2
  IN Then(o3, LAMBDA x :
       IF x.enabled /\ x.activeCount = 0 THEN emit(x, "inactive", NoId) ELSE x)

_listen(o, id) ==
  IF ~HasMethod(o.methods, id) THEN throw(o, ErrBadId)
  ELSE LET inst == MethodRec(o.methods, id).instance
       IN [o EXCEPT !.subs[inst].active = addEventListener(@, id),
                    !.subs[inst].inactive = addEventListener(@, id)]

\* mutant: the handlers stay subscribed
_unlisten_keep(o, id) ==
  IF ~HasMethod(o.methods, id) THEN throw(o, ErrBadId) ELSE o

_unlisten(o, id) ==
  IF ~HasMethod(o.methods, id) THEN throw(o, ErrBadId)
  ELSE LET inst == MethodRec(o.methods, id).instance
       IN [o EXCEPT !.subs[inst].active = removeEventListener(@, id),
                    !.subs[inst].inactive = removeEventListener(@, id)]

\* mutant: Composer membership follows method.enabled alone
RECURSIVE updateComposerFrom_noGate(_, _)
updateComposerFrom_noGate(o, i) ==
  IF i > Len(o.methods) THEN o
  ELSE LET method == o.methods[i]
           en == method.enabled
           c1 == IF en /\ ~composerHas(o.composer, method.instance)
                 THEN composerAdd(o.composer, method.instance) ELSE o.composer
           c2 == IF ~en /\ composerHas(c1, method.instance)
                 THEN composerRemove(c1, method.instance) ELSE c1
       IN updateComposerFrom_noGate([o EXCEPT !.composer = c2], i + 1)

RECURSIVE updateComposerFrom(_, _)
updateComposerFrom(o, i) ==
  IF i > Len(o.methods) THEN o
  ELSE LET method == o.methods[i]
           en == o.enabled /\ method.enabled
           c1 == IF en /\ ~composerHas(o.composer, method.instance)
                 THEN composerAdd(o.composer, method.instance) ELSE o.composer
           c2 == IF ~en /\ composerHas(c1, method.instance)
                 THEN composerRemove(c1, method.instance) ELSE c1
       IN updateComposerFrom([o EXCEPT !.composer = c2], i + 1)

_updateComposer(o) == updateComposerFrom(o, 1)

\* mutant: a record still active from before its last disable is not counted
enableMethod_noIncrement(o, id) ==
  IF ~HasMethod(o.methods, id) THEN throw(o, ErrNoMethod)
  ELSE LET i == MethodIndex(o.methods, id)
           method == o.methods[i]
       IN IF method.enabled THEN o
          ELSE LET o1 == [o EXCEPT !.methods[i].enabled = TRUE]
                   o3 == Then(o1, LAMBDA x : _listen(x, id))
                   o4 == Then(o3, LAMBDA x : _updateComposer(x))
               IN Then(o4, LAMBDA x : emit(x, "methodEnabled", id))

\* mutant: an enabled method is enabled once more
enableMethod_noEarlyReturn(o, id) ==
  IF ~HasMethod(o.methods, id) THEN throw(o, ErrNoMethod)
  ELSE LET i == MethodIndex(o.methods, id)
           method == o.methods[i]
           o1 == [o EXCEPT !.methods[i].enabled = TRUE]
           o2 == IF method.active THEN _incrementActiveCount(o1) ELSE o1
           o3 == Then(o2, LAMBDA x : _listen(x, id))
           o4 == Then(o3, LAMBDA x : _updateComposer(x))
       IN Then(o4, LAMBDA x : emit(x, "methodEnabled", id))

enableMethod(o, id) ==
  IF ~HasMethod(o.methods, id) THEN throw(o, ErrNoMethod)
  ELSE LET i == MethodIndex(o.methods, id)
           method == o.methods[i]
       IN IF method.enabled THEN o
          ELSE LET o1 == [o EXCEPT !.methods[i].enabled = TRUE]
                   o2 == IF method.active THEN _incrementActiveCount(o1) ELSE o1
                   o3 == Then(o2, LAMBDA x : _listen(x, id))
                   o4 == Then(o3, LAMBDA x : _updateComposer(x))
               IN Then(o4, LAMBDA x : emit(x, "methodEnabled", id))

\* mutant: disabling an active method forgets the counter
disableMethod_noDecrement(o, id) ==
  IF ~HasMethod(o.methods, id) THEN throw(o, ErrNoMethod)
  ELSE LET i == MethodIndex(o.methods, id)
           method == o.methods[i]
       IN IF ~method.enabled THEN o
          ELSE LET o1 == [o EXCEPT !.methods[i].enabled = FALSE]
                   o3 == Then(o1, LAMBDA x : _unlisten(x, id))
                   o4 == Then(o3, LAMBDA x : _updateComposer(x))
               IN Then(o4, LAMBDA x : emit(x, "methodDisabled", id))

disableMethod(o, id) ==
  IF ~HasMethod(o.methods, id) THEN throw(o, ErrNoMethod)
  ELSE LET i == MethodIndex(o.methods, id)
           method == o.methods[i]
       IN IF ~method.enabled THEN o
          ELSE LET o1 == [o EXCEPT !.methods[i].enabled = FALSE]
                   o2 == IF method.active THEN _decrementActiveCount(o1) ELSE o1
                   o3 == Then(o2, LAMBDA x : _unlisten(x, id))
                   o4 == Then(o3, LAMBDA x : _updateComposer(x))
               IN Then(o4, LAMBDA x : emit(x, "methodDisabled", id))

\* mutant: no check for an id that is already registered
registerMethod_noGuard(o, id, instance, enable) ==
  LET o1 == [o EXCEPT !.methods = Append(@,
                [id |-> id, instance |-> instance,
                 enabled |-> FALSE, active |-> FALSE])]
  IN IF enable THEN enableMethod(o1, id) ELSE o1

registerMethod(o, id, instance, enable) ==
  IF HasMethod(o.methods, id) THEN throw(o, ErrAlready)
  ELSE LET o1 == [o EXCEPT !.methods = Append(@,
                     [id |-> id, instance |-> instance,
                      enabled |-> FALSE, active |-> FALSE])]
       IN IF enable THEN enableMethod(o1, id) ELSE o1

\* mutant: the record is deleted without being disabled first
unregisterMethod_noDisable(o, id) ==
  IF ~HasMethod(o.methods, id) THEN throw(o, ErrNoMethod)
  ELSE [o EXCEPT !.methods = DeleteMethod(@, id)]

unregisterMethod(o, id) ==
  IF ~HasMethod(o.methods, id) THEN throw(o, ErrNoMethod)
  ELSE LET o1 == IF MethodRec(o.methods, id).enabled
                 THEN disableMethod(o, id) ELSE o
       IN Then(o1, LAMBDA x : [x EXCEPT !.methods = DeleteMethod(@, id)])

addMethodGroup(o, groupId, methodIds) ==
  [o EXCEPT !.methodGroups[groupId] = methodIds]

removeMethodGroup(o, groupId) ==
  [o EXCEPT !.methodGroups[groupId] = NoGroup]

RECURSIVE enableEach(_, _, _)
enableEach(o, ids, i) ==
  IF i > Len(ids) \/ o.err # NoErr THEN o
  ELSE enableEach(enableMethod(o, ids[i]), ids, i + 1)

RECURSIVE disableEach(_, _, _)
disableEach(o, ids, i) ==
  IF i > Len(ids) \/ o.err # NoErr THEN o
  ELSE disableEach(disableMethod(o, ids[i]), ids, i + 1)

enableMethodGroup(o, groupId) ==
  IF o.methodGroups[groupId] = NoGroup THEN throw(o, ErrTypeError)
  ELSE enableEach(o, o.methodGroups[groupId], 1)

disableMethodGroup(o, groupId) ==
  IF o.methodGroups[groupId] = NoGroup THEN throw(o, ErrTypeError)
  ELSE disableEach(o, o.methodGroups[groupId], 1)

\* mutant: enabling the engine does not announce the activity it uncovers
\* enabled()
Controls_enabled(o) == o.enabled

enable_noActive(o) ==
  IF o.enabled THEN o
  ELSE LET o1 == [o EXCEPT !.enabled = TRUE]
           o3 == emit(o1, "enabled", NoId)
       IN _updateComposer(o3)

enable(o) ==
  IF o.enabled THEN o
  ELSE LET o1 == [o EXCEPT !.enabled = TRUE]
           o2 == IF o1.activeCount > 0 THEN emit(o1, "active", NoId) ELSE o1
           o3 == Then(o2, LAMBDA x : emit(x, "enabled", NoId))
       IN Then(o3, LAMBDA x : _updateComposer(x))

disable_noInactive(o) ==
  IF ~o.enabled THEN o
  ELSE _updateComposer(emit([o EXCEPT !.enabled = FALSE], "disabled", NoId))

disable(o) ==
  IF ~o.enabled THEN o
  ELSE LET o1 == [o EXCEPT !.enabled = FALSE]
           o2 == IF o1.activeCount > 0 THEN emit(o1, "inactive", NoId) ELSE o1
           o3 == Then(o2, LAMBDA x : emit(x, "disabled", NoId))
       IN Then(o3, LAMBDA x : _updateComposer(x))

\* mutant: a signal for a disabled record is accepted
_handleActive_noEnabledCheck(o, id) ==
  IF ~HasMethod(o.methods, id) THEN throw(o, ErrBadId)
  ELSE LET i == MethodIndex(o.methods, id)
           method == o.methods[i]
       IN IF ~method.active
          THEN _incrementActiveCount([o EXCEPT !.methods[i].active = TRUE])
          ELSE o

_handleActive(o, id) ==
  IF ~HasMethod(o.methods, id) THEN throw(o, ErrBadId)
  ELSE LET i == MethodIndex(o.methods, id)
           method == o.methods[i]
       IN IF ~method.enabled THEN throw(o, ErrDisabledEvent)
          ELSE IF ~method.active
               THEN _incrementActiveCount([o EXCEPT !.methods[i].active = TRUE])
               ELSE o

_handleInactive(o, id) ==
  IF ~HasMethod(o.methods, id) THEN throw(o, ErrBadId)
  ELSE LET i == MethodIndex(o.methods, id)
           method == o.methods[i]
       IN IF ~method.enabled THEN throw(o, ErrDisabledEvent)
          ELSE IF method.active
               THEN _decrementActiveCount([o EXCEPT !.methods[i].active = FALSE])
               ELSE o

\* an instance emits 'active' / 'inactive': its handler list is called in order,
\* and a handler that throws ends the delivery
RECURSIVE deliver(_, _, _, _)
deliver(o, inst, ev, i) ==
  LET list == IF ev = "active" THEN o.subs[inst].active ELSE o.subs[inst].inactive
  IN IF i > Len(list) \/ o.err # NoErr THEN o
     ELSE deliver(IF ev = "active" THEN _handleActive(o, list[i])
                  ELSE _handleInactive(o, list[i]), inst, ev, i + 1)

\* ------------------------------------------------------------ Timer
\* Operators on the timer t called at clock value time; t.emitted counts the
\* 'timeout' events of the call.

\* Infinity - elapsed is Infinity
Minus(d, elapsed) == IF d = Infinity THEN Infinity ELSE d - elapsed

\* setTimeout(callback, interval): a new id, due interval from now
setTimeout(t, time, interval) ==
  LET used == {p.id : p \in t.pending}
      id == CHOOSE i \in 1..(Cardinality(used) + 1) :
              i \notin used /\ \A j \in 1..(i - 1) : j \in used
  IN [id |-> id, pending |-> t.pending \cup {[id |-> id, due |-> time + interval]}]

clearTimeout(pend, id) == {p \in pend : p.id # id}

_setup(t, time, interval) ==
  LET r == setTimeout(t, time, interval)
  IN [t EXCEPT !._handle = r.id, !.pending = r.pending]

_teardown(t) ==
  [t EXCEPT !.pending = clearTimeout(@, t._handle), !._handle = NoTimeout]

\* mutant: a timeout that is due is dropped without the event
_check_noEmit(t, time) ==
  LET elapsed == time - t._startTime
      remaining == Minus(t._duration, elapsed)
      t1 == _teardown(t)
  IN IF remaining <= 0 THEN t1
     ELSE IF remaining < Infinity THEN _setup(t1, time, remaining)
     ELSE t1

\* the methods of the timer, which a listener of 'timeout' may call
RECURSIVE Timer_call(_, _, _)

\* this.emit('timeout'): the event is counted and logged with the start time
\* and the duration at that moment; the listener of the operation, if it has
\* calls left, calls its method of the timer before emit returns
Timer_emit(t, time) ==
  LET t1 == [t EXCEPT !.emitted = @ + 1,
                      !.log = Append(@, [at |-> time, _startTime |-> t._startTime,
                                         _duration |-> t._duration])]
  IN  IF t1.listener.op # "none" /\ t1.reentries < MaxReentrantCalls
      THEN Timer_call([t1 EXCEPT !.reentries = @ + 1], time, t1.listener)
      ELSE t1

\* currentTime - this._startTime, where null converts to 0
Elapsed(time, startTime) == time - (IF startTime = NoTime THEN 0 ELSE startTime)

_check(t, time) ==
  LET elapsed == Elapsed(time, t._startTime)
      remaining == Minus(t._duration, elapsed)
      t1 == _teardown(t)
  IN IF remaining <= 0
     THEN [Timer_emit(t1, time) EXCEPT !._startTime = NoTime]
     ELSE IF remaining < Infinity THEN _setup(t1, time, remaining)
     ELSE t1

\* mutant: a pending timeout stops start() from taking the new start time
start_keepStartTime(t, time) ==
  IF t._handle = NoTimeout
  THEN LET t1 == [t EXCEPT !._startTime = time]
       IN IF t1._duration < Infinity THEN _setup(t1, time, t1._duration) ELSE t1
  ELSE t

start(t, time) ==
  LET t1 == [t EXCEPT !._startTime = time]
  IN IF t1._handle = NoTimeout /\ t1._duration < Infinity
     THEN _setup(t1, time, t1._duration)
     ELSE t1

started(t) == t._startTime # NoTime

\* mutant: stop() leaves the timeout scheduled
stop_noClear(t) == [t EXCEPT !._startTime = NoTime]

stop(t) ==
  LET t1 == [t EXCEPT !._startTime = NoTime]
  IN IF t1._handle # NoTimeout
     THEN [t1 EXCEPT !.pending = clearTimeout(@, t1._handle), !._handle = NoTimeout]
     ELSE t1

duration(t) == t._duration

\* mutant: the new duration takes effect at the next timeout only
setDuration_noCheck(t, time, d) == [t EXCEPT !._duration = d]

setDuration(t, time, d) ==
  LET t1 == [t EXCEPT !._duration = d]
  IN IF t1._startTime # NoTime THEN _check(t1, time) ELSE t1

\* a call of start(), stop() or setDuration(d)
Timer_call(t, time, c) ==
  CASE c.op = "start" -> start(t, time)
    [] c.op = "stop" -> stop(t)
    [] c.op = "setDuration" -> setDuration(t, time, c.d)
    [] OTHER -> t

\* ------------------------------------------------------------ Layer
\* a geometry of n levels; level objects are told apart by their position z
Levels(n) == [k \in 1..n |-> [z |-> k]]

\* levelList[i] for a JavaScript index i
At(list, i) == list[i + 1]

\* what a caller passes as level index: null, the indices and their neighbours
LevelArgs(list) == {NoLevel} \cup ((0 - 1)..(Len(list) + 1))

fixedLevel(l) == l._fixedLevelIndex

\* mutant: the last index plus one is taken as in range
setFixedLevel_offByOne(l, levelIndex) ==
  IF levelIndex # l._fixedLevelIndex
  THEN IF levelIndex # NoLevel /\ (levelIndex > Len(l.levelList) \/ levelIndex < 0)
       THEN [l EXCEPT !.err = ErrOutOfRange]
       ELSE [l EXCEPT !._fixedLevelIndex = levelIndex,
                      !.events = Append(@, levelIndex)]
  ELSE l

setFixedLevel(l, levelIndex) ==
  IF levelIndex # l._fixedLevelIndex
  THEN IF levelIndex # NoLevel /\ (levelIndex >= Len(l.levelList) \/ levelIndex < 0)
       THEN [l EXCEPT !.err = ErrOutOfRange]
       ELSE [l EXCEPT !._fixedLevelIndex = levelIndex,
                      !.events = Append(@, levelIndex)]
  ELSE l

\* mutant: the view selects the level although one is fixed
_selectLevel_viewOnly(l, viewChoice) == viewChoice

\* _selectLevel, the view selecting viewChoice among the selectable levels
_selectLevel(l, viewChoice) ==
  IF l._fixedLevelIndex # NoLevel
  THEN At(l.levelList, l._fixedLevelIndex)
  ELSE viewChoice

\* ------------------------------------------------------------ HotspotContainer
\* Array.prototype.indexOf, as a JavaScript index: -1 when absent
indexOf(list, x) == IndexOf(list, x, 1) - 1

\* Array.prototype.splice(i, 1): a negative i counts from the end
splice(list, i) ==
  IF Len(list) = 0 THEN list
  ELSE IF i < 0 THEN RemoveAt(list, IF Len(list) + i < 0 THEN 1 ELSE Len(list) + i + 1)
  ELSE IF i >= Len(list) THEN list
  ELSE RemoveAt(list, i + 1)

\* createHotspot with arguments the Hotspot constructor accepts
createHotspot(h) ==
  LET hotspot == h.created + 1
  IN [h EXCEPT !.created = hotspot,
               !._hotspots = Append(@, hotspot),
               !.events = @ + 1]

hasHotspot(h, hotspot) == indexOf(h._hotspots, hotspot) >= 0

listHotspots(h) == <<>> \o h._hotspots

\* mutant: no check that the hotspot is in the list
destroyHotspot_noCheck(h, hotspot) ==
  LET i == indexOf(h._hotspots, hotspot)
  IN [h EXCEPT !._hotspots = splice(@, i),
               !.destroyedHotspots = @ \cup {hotspot},
               !.events = @ + 1]

destroyHotspot(h, hotspot) ==
  LET i == indexOf(h._hotspots, hotspot)
  IN IF i < 0 THEN [h EXCEPT !.err = ErrNoSuchHotspot]
     ELSE [h EXCEPT !._hotspots = splice(@, i),
                    !.destroyedHotspots = @ \cup {hotspot},
                    !.events = @ + 1]

\* the loop of destroy(): it is cut off, as diverging, after rounds iterations
RECURSIVE destroyAll(_, _)
destroyAll(h, rounds) ==
  IF Len(h._hotspots) = 0 \/ h.err # NoErr THEN h
  ELSE IF rounds = 0 THEN [h EXCEPT !.diverges = TRUE]
  ELSE destroyAll(destroyHotspot(h, h._hotspots[1]), rounds - 1)

\* HotspotContainer.destroy()
HotspotContainer_destroy(h) ==
  LET h1 == destroyAll(h, Len(h._hotspots) + 1)
  IN IF h1.err # NoErr \/ h1.diverges THEN h1
     ELSE [h1 EXCEPT !.destroyed = TRUE]

\* ------------------------------------------------------------ Controls: render loop
\* Operators on the attachment state a.  a.calls lists, in order, the calls one
\* operation makes on its collaborators (Composer, render loop, views).

\* Function.prototype.bind returns a new function each time: a handler not in use
FreshHandler(used) ==
  CHOOSE h \in 1..(Cardinality(used) + 1) :
    h \notin used /\ \A g \in 1..(h - 1) : g \in used

Range(seq) == {seq[i] : i \in 1..Len(seq)}

\* removeEventListener of a bound renderOnNextFrame from the Composer's list
RemoveChangeListener(list, h) ==
  IF \E i \in 1..Len(list) : list[i].h = h
  THEN RemoveAt(list, CHOOSE i \in 1..Len(list) :
                        list[i].h = h /\ \A j \in 1..(i - 1) : list[j].h # h)
  ELSE list

\* renderLoop.renderOnNextFrame()
renderOnNextFrame(a, loop) ==
  [a EXCEPT !.renderRequested[loop] = TRUE,
            !.calls = Append(@, <<"renderOnNextFrame", loop>>)]

detach(a) ==
  IF a._attachedRenderLoop = NoLoop THEN a
  ELSE [a EXCEPT
          !.beforeRenderListeners[a._attachedRenderLoop] =
              removeEventListener(@, a._beforeRenderHandler),
          !.changeListeners = RemoveChangeListener(@, a._changeHandler),
          !._beforeRenderHandler = NoHandler,
          !._changeHandler = NoHandler,
          !._attachedRenderLoop = NoLoop]

\* mutant: a second attach keeps the subscriptions of the first
attach_noDetach(a, renderLoop) ==
  LET bh == FreshHandler(UNION {Range(a.beforeRenderListeners[l]) : l \in Loops})
      ch == FreshHandler({a.changeListeners[i].h : i \in 1..Len(a.changeListeners)})
  IN [a EXCEPT
        !._attachedRenderLoop = renderLoop,
        !._beforeRenderHandler = bh,
        !._changeHandler = ch,
        !.beforeRenderListeners[renderLoop] = addEventListener(@, bh),
        !.changeListeners = addEventListener(@, [h |-> ch, loop |-> renderLoop])]

attach(a, renderLoop) ==
  LET a1 == IF a._attachedRenderLoop # NoLoop THEN detach(a) ELSE a
      bh == FreshHandler(UNION {Range(a1.beforeRenderListeners[l]) : l \in Loops})
      ch == FreshHandler({a1.changeListeners[i].h : i \in 1..Len(a1.changeListeners)})
  IN [a1 EXCEPT
        !._attachedRenderLoop = renderLoop,
        !._beforeRenderHandler = bh,
        !._changeHandler = ch,
        !.beforeRenderListeners[renderLoop] = addEventListener(@, bh),
        !.changeListeners = addEventListener(@, [h |-> ch, loop |-> renderLoop])]

attached(a) == a._attachedRenderLoop # NoLoop

\* destroy(): detach, release the Composer, clear every field
destroy(a) ==
  LET a1 == detach(a)
  IN [a1 EXCEPT !.updatedViews_ = <<>>, !.destroyed = TRUE]

\* the views of the stage's layers that were not updated yet, each updated once
updateViews(a, offsets, layers, i) ==
  LET F[k \in i..(Len(layers) + 1)] ==
        IF k = i THEN a
        ELSE LET b == F[k - 1]
                 view == layers[k - 1]
             IN IF IndexOf(b.updatedViews_, view, 1) = 0
                THEN [b EXCEPT
                        !.calls = Append(@, <<"updateWithControlParameters", view, offsets>>),
                        !.updatedViews_ = Append(@, view)]
                ELSE b
  IN F[Len(layers) + 1]

\* mutant: the views updated in the previous frame are not forgotten
_updateViewsWithControls_noClear(a, controlData, layers) ==
  LET a1 == [a EXCEPT !.calls = Append(@, <<"offsets">>)]
  IN IF a1._attachedRenderLoop = NoLoop
     THEN [a1 EXCEPT !.err = ErrTypeError]
     ELSE LET a2 == IF controlData.changing
                    THEN renderOnNextFrame(a1, a1._attachedRenderLoop)
                    ELSE a1
          IN updateViews(a2, controlData.offsets, layers, 1)

\* _updateViewsWithControls with the Composer answering controlData and the
\* stage of the attached loop listing layers (each given by its view)
_updateViewsWithControls(a, controlData, layers) ==
  LET a1 == [a EXCEPT !.calls = Append(@, <<"offsets">>)]
  IN IF a1._attachedRenderLoop = NoLoop
     THEN [a1 EXCEPT !.err = ErrTypeError,
                     !.updatedViews_ = IF controlData.changing THEN @ ELSE <<>>]
     ELSE LET a2 == IF controlData.changing
                    THEN renderOnNextFrame(a1, a1._attachedRenderLoop)
                    ELSE a1
              a3 == [a2 EXCEPT !.updatedViews_ = <<>>]
          IN updateViews(a3, controlData.offsets, layers, 1)

\* the render loop emits 'beforeRender': its handlers run in order, a throw ends it
emitBeforeRender(a, loop, controlData, layers) ==
  LET hs == a.beforeRenderListeners[loop]
      F[k \in 0..Len(hs)] ==
        IF k = 0 THEN a
        ELSE IF F[k - 1].err # NoErr THEN F[k - 1]
             ELSE _updateViewsWithControls(F[k - 1], controlData, layers)
  IN F[Len(hs)]

\* the Composer emits 'change': every handler requests a frame of its bound loop
emitChange(a) ==
  LET hs == a.changeListeners
      F[k \in 0..Len(hs)] ==
        IF k = 0 THEN a ELSE renderOnNextFrame(F[k - 1], hs[k].loop)
  IN F[Len(hs)]

\* the operation op called on the engine in state o
Call(o, op) ==
  CASE op.op = "registerMethod" -> registerMethod(o, op.id, op.inst, op.flag)
    [] op.op = "unregisterMethod" -> unregisterMethod(o, op.id)
    [] op.op = "enableMethod" -> enableMethod(o, op.id)
    [] op.op = "disableMethod" -> disableMethod(o, op.id)
    [] op.op = "enable" -> enable(o)
    [] op.op = "disable" -> disable(o)
    [] op.op = "instanceActive" -> deliver(o, op.inst, "active", 1)
    [] op.op = "instanceInactive" -> deliver(o, op.inst, "inactive", 1)
    [] op.op = "_handleActive" -> _handleActive(o, op.id)
    [] op.op = "_handleInactive" -> _handleInactive(o, op.id)
    [] op.op = "addMethodGroup" -> addMethodGroup(o, op.id, op.inst)
    [] op.op = "removeMethodGroup" -> removeMethodGroup(o, op.id)
    [] op.op = "enableMethodGroup" -> enableMethodGroup(o, op.id)
    [] op.op = "disableMethodGroup" -> disableMethodGroup(o, op.id)
    [] OTHER -> o

\* ------------------------------------------------------------ state machine
\* no listener calls back into the engine
NoListener == [ev |-> "none", op |-> [op |-> "none", id |-> NoId, inst |-> 0, flag |-> FALSE]]

\* the engine as an operation finds it
St ==
  [methods |-> methods, enabled |-> enabled, activeCount |-> activeCount,
   composer |-> composer, subs |-> subs, methodGroups |-> methodGroups,
   debug |-> debug, trace |-> <<>>, err |-> NoErr,
   listener |-> NoListener, reentries |-> 0]

Shares(ms) ==
  \E i, j \in 1..Len(ms) : i # j /\ ms[i].instance = ms[j].instance

Op(name, id, inst, flag) == [op |-> name, id |-> id, inst |-> inst, flag |-> flag]

\* the 'active' / 'inactive' events of the engine among the emissions of a trace
ActivityEvents(tr) ==
  SelectSeq([i \in 1..Len(tr) |-> IF tr[i].k = "emit" /\ tr[i].id = NoId
                                    THEN tr[i].ev ELSE "other"],
            LAMBDA e : e \in {"active", "inactive"})

\* the last of them, or prev when the trace has none
LastActivity(prev, tr) ==
  LET es == ActivityEvents(tr) IN IF es = <<>> THEN prev ELSE es[Len(es)]

\* the operation has returned or thrown: the engine is left as o
Return(o) ==
  /\ UNCHANGED <<attachVars, timerVars, layerVars, hotspotVars>>
  /\ methods' = o.methods
  /\ enabled' = o.enabled
  /\ activeCount' = o.activeCount
  /\ composer' = o.composer
  /\ subs' = o.subs
  /\ methodGroups' = o.methodGroups
  /\ debug' = o.debug
  /\ shared' = (shared \/ Shares(o.methods))
  /\ lastActivity' = LastActivity(lastActivity, o.trace)
  /\ opts' = opts
  /\ fresh' = FALSE

Do(op) == Return(Call(St, op))

GroupSeqs == UNION {[1..n -> Ids] : n \in 0..MaxGroupLen}

\* the calls the environment can make
RegisterOps ==
  {Op("registerMethod", id, inst, en) : id \in Ids, inst \in Instances, en \in BOOLEAN}

MethodOps(name) == {Op(name, id, 0, FALSE) : id \in Ids}

EngineOps(name) == {Op(name, NoId, 0, FALSE)}

InstanceOps(name) == {Op(name, NoId, inst, FALSE) : inst \in Instances}

\* the bound handler kept in a record (method(id).activeHandler) is called
\* although it may not be subscribed: the defect case of a control method that
\* signals activity after it was unsubscribed
HandlerOps(name) == {Op(name, id, 0, FALSE) : id \in {i \in Ids : HasMethod(methods, i)}}

\* the group operations are called on groups that exist
GroupOps(name) ==
  {Op(name, g, 0, FALSE) : g \in {h \in GroupIds : methodGroups[h] # NoGroup}}

Ops ==
  RegisterOps \cup MethodOps("unregisterMethod") \cup MethodOps("enableMethod")
    \cup MethodOps("disableMethod") \cup EngineOps("enable") \cup EngineOps("disable")
    \cup InstanceOps("instanceActive") \cup InstanceOps("instanceInactive")
    \cup HandlerOps("_handleActive") \cup HandlerOps("_handleInactive")

\* the values of the constructor's argument: undefined, or an object whose
\* enabled property is undefined, true or false
NoOpts == [given |-> FALSE, enabled |-> "undefined"]
Opts == {NoOpts} \cup [given : {TRUE}, enabled : {"undefined", "true", "false"}]

\* opts = opts || {}
OrEmpty(op) == IF op.given THEN op ELSE [given |-> TRUE, enabled |-> "undefined"]

\* (opts && opts.enabled) ? !!opts.enabled : true
constructorEnabled(op) ==
  LET o1 == OrEmpty(op)
  IN  IF o1.given /\ o1.enabled = "true" THEN o1.enabled = "true" ELSE TRUE

\* new Controls(op): the registry part
Controls(op) ==
  /\ opts = op
  /\ fresh = TRUE
  /\ lastActivity = "inactive"
  /\ methods = <<>>
  /\ enabled = constructorEnabled(op)
  /\ activeCount = 0
  /\ composer = {}
  /\ subs = [inst \in Instances |-> [active |-> <<>>, inactive |-> <<>>]]
  /\ methodGroups = [g \in GroupIds |-> NoGroup]
  /\ shared = FALSE

\* new Controls()
ControlsNew == Controls(NoOpts)

\* new Controls(): the attachment part, with render loops that exist beside it
AttachNew ==
  /\ _attachedRenderLoop = NoLoop
  /\ _beforeRenderHandler = NoHandler
  /\ _changeHandler = NoHandler
  /\ updatedViews_ = <<>>
  /\ beforeRenderListeners = [l \in Loops |-> <<>>]
  /\ changeListeners = <<>>
  /\ renderRequested = [l \in Loops |-> FALSE]
  /\ destroyed = FALSE

\* new Timer({duration: d}) at clock value 0
TimerNew(d) ==
  /\ now = 0
  /\ _duration = d
  /\ _startTime = NoTime
  /\ _handle = NoTimeout
  /\ pending = {}
  /\ timeouts = 0
  /\ lastStart = NoTime
  /\ afterStop = FALSE
  /\ lastCall = "new"
  /\ epoch = 0

\* new Layer(source, geometry, view, textureStore) for a geometry of n levels
LayerNew(n) ==
  /\ levelList = Levels(n)
  /\ _fixedLevelIndex = NoLevel
  /\ levelEvents = <<>>
  /\ levelErr = NoErr
  /\ selectedLevel = <<>>

\* new HotspotContainer(...)
HotspotContainerNew ==
  /\ _hotspots = <<>>
  /\ created = 0
  /\ destroyedHotspots = {}
  /\ hotspotEvents = 0
  /\ hotspotErr = NoErr
  /\ containerDestroyed = FALSE

Init ==
  /\ ControlsNew
  /\ debug \in BOOLEAN
  /\ AttachNew
  /\ TimerNew(Infinity)
  /\ LayerNew(1)
  /\ HotspotContainerNew

RegisterMethod == \E op \in RegisterOps : Do(op)

UnregisterMethod == \E op \in MethodOps("unregisterMethod") : Do(op)

EnableMethod == \E op \in MethodOps("enableMethod") : Do(op)

DisableMethod == \E op \in MethodOps("disableMethod") : Do(op)

Enable == \E op \in EngineOps("enable") : Do(op)

Disable == \E op \in EngineOps("disable") : Do(op)

\* a control method instance emits an activity event
InstanceActive == \E op \in InstanceOps("instanceActive") : Do(op)

InstanceInactive == \E op \in InstanceOps("instanceInactive") : Do(op)

HandleActive == \E op \in HandlerOps("_handleActive") : Do(op)

HandleInactive == \E op \in HandlerOps("_handleInactive") : Do(op)

AddMethodGroup ==
  \E g \in GroupIds, ids \in GroupSeqs : Do(Op("addMethodGroup", g, ids, FALSE))

RemoveMethodGroup == \E g \in GroupIds : Do(Op("removeMethodGroup", g, 0, FALSE))

EnableMethodGroup == \E op \in GroupOps("enableMethodGroup") : Do(op)

DisableMethodGroup == \E op \in GroupOps("disableMethodGroup") : Do(op)

Next ==
  \/ RegisterMethod
  \/ UnregisterMethod
  \/ EnableMethod
  \/ DisableMethod
  \/ Enable
  \/ Disable
  \/ InstanceActive
  \/ InstanceInactive
  \/ HandleActive
  \/ HandleInactive

Spec == Init /\ [][Next]_vars

\* the engine with control methods that signal activity through their
\* subscriptions only: no handler is called by an instance it is not subscribed to
NextSubscribed ==
  \/ RegisterMethod
  \/ UnregisterMethod
  \/ EnableMethod
  \/ DisableMethod
  \/ Enable
  \/ Disable
  \/ InstanceActive
  \/ InstanceInactive

SpecSubscribed == Init /\ [][NextSubscribed]_vars

\* new Controls(op) for each value of op, then the same operations
InitConstruct ==
  /\ \E op \in Opts : Controls(op)
  /\ debug \in BOOLEAN
  /\ AttachNew
  /\ TimerNew(Infinity)
  /\ LayerNew(1)
  /\ HotspotContainerNew

SpecConstruct == InitConstruct /\ [][Next]_vars

\* the engine together with its method groups
NextGroups ==
  \/ Next
  \/ AddMethodGroup
  \/ RemoveMethodGroup
  \/ EnableMethodGroup
  \/ DisableMethodGroup

SpecGroups == Init /\ [][NextGroups]_vars

\* ------------------------------------------------------------ state machine: render loop
\* the attachment as an operation finds it
AttSt ==
  [_attachedRenderLoop |-> _attachedRenderLoop,
   _beforeRenderHandler |-> _beforeRenderHandler,
   _changeHandler |-> _changeHandler,
   updatedViews_ |-> updatedViews_,
   beforeRenderListeners |-> beforeRenderListeners,
   changeListeners |-> changeListeners,
   renderRequested |-> renderRequested,
   destroyed |-> destroyed,
   calls |-> <<>>, err |-> NoErr]

ReturnAttach(a) ==
  /\ _attachedRenderLoop' = a._attachedRenderLoop
  /\ _beforeRenderHandler' = a._beforeRenderHandler
  /\ _changeHandler' = a._changeHandler
  /\ updatedViews_' = a.updatedViews_
  /\ beforeRenderListeners' = a.beforeRenderListeners
  /\ changeListeners' = a.changeListeners
  /\ renderRequested' = a.renderRequested
  /\ destroyed' = a.destroyed
  /\ UNCHANGED <<vars, timerVars, layerVars, hotspotVars>>

\* what the Composer can answer and what a stage can list
ControlData == [changing : BOOLEAN, offsets : Offsets]

LayerLists == UNION {[1..n -> Views] : n \in 0..MaxLayers}

\* the engine is not used after destroy()
Attach == \E loop \in Loops : ~destroyed /\ ReturnAttach(attach(AttSt, loop))

Detach == ~destroyed /\ ReturnAttach(detach(AttSt))

Destroy == ~destroyed /\ ReturnAttach(destroy(AttSt))

BeforeRender ==
  \E loop \in Loops, controlData \in ControlData, layers \in LayerLists :
    ReturnAttach(emitBeforeRender(AttSt, loop, controlData, layers))

ComposerChange == ~destroyed /\ ReturnAttach(emitChange(AttSt))

\* the render loop renders the frame that was requested
RenderFrame ==
  \E loop \in Loops :
    /\ renderRequested[loop]
    /\ ReturnAttach([AttSt EXCEPT !.renderRequested[loop] = FALSE])

InitAttach ==
  /\ ControlsNew
  /\ debug = FALSE
  /\ AttachNew
  /\ TimerNew(Infinity)
  /\ LayerNew(1)
  /\ HotspotContainerNew

NextAttach ==
  \/ Attach
  \/ Detach
  \/ Destroy
  \/ BeforeRender
  \/ ComposerChange
  \/ RenderFrame

SpecAttach == InitAttach /\ [][NextAttach]_attachVars

\* ------------------------------------------------------------ state machine: Timer
\* the timer as a call finds it
\* no listener of 'timeout' calls back into the timer
NoTimerListener == [op |-> "none", d |-> 0]

TimerSt ==
  [_duration |-> _duration, _startTime |-> _startTime, _handle |-> _handle,
   pending |-> pending, emitted |-> 0, log |-> <<>>,
   listener |-> NoTimerListener, reentries |-> 0]

\* calls are made while every timeout they can set is due by MaxTime
CallTime == now + MaxDuration <= MaxTime

ReturnTimer(t) ==
  /\ _duration' = t._duration
  /\ _startTime' = t._startTime
  /\ _handle' = t._handle
  /\ pending' = t.pending
  /\ UNCHANGED <<now, vars, attachVars, layerVars, hotspotVars>>

Start ==
  /\ CallTime
  /\ ReturnTimer(start(TimerSt, now))
  /\ timeouts' = 0
  /\ lastStart' = now
  /\ afterStop' = FALSE
  /\ lastCall' = IF started(TimerSt) THEN "restart" ELSE "start"
  /\ epoch' = 1 - epoch

Stop ==
  /\ CallTime
  /\ ReturnTimer(stop(TimerSt))
  /\ afterStop' = TRUE
  /\ lastCall' = "stop"
  /\ epoch' = 1 - epoch
  /\ UNCHANGED <<timeouts, lastStart>>

SetDuration ==
  \E d \in Durations :
    /\ CallTime
    /\ ReturnTimer(setDuration(TimerSt, now, d))
    /\ timeouts' = timeouts + setDuration(TimerSt, now, d).emitted
    /\ lastCall' = "setDuration"
    /\ epoch' = 1 - epoch
    /\ UNCHANGED <<lastStart, afterStop>>

\* time passes
Tick ==
  /\ now < MaxTime
  /\ now' = now + 1
  /\ UNCHANGED <<_duration, _startTime, _handle, pending, timeouts, lastStart,
                  afterStop, lastCall, epoch, vars, attachVars, layerVars, hotspotVars>>

\* the host runs a timeout that is due: the callback is this._check
fire(t, p, time) == _check([t EXCEPT !.pending = @ \ {p}], time)

Fire ==
  \E p \in pending :
    /\ p.due <= now
    /\ ReturnTimer(fire(TimerSt, p, now))
    /\ timeouts' = timeouts + fire(TimerSt, p, now).emitted
    /\ UNCHANGED <<lastStart, afterStop, lastCall, epoch>>

InitTimer ==
  /\ ControlsNew
  /\ debug = FALSE
  /\ AttachNew
  /\ \E d \in Durations : TimerNew(d)
  /\ LayerNew(1)
  /\ HotspotContainerNew

NextTimer ==
  \/ Start
  \/ Stop
  \/ SetDuration
  \/ Tick
  \/ Fire

SpecTimer == InitTimer /\ [][NextTimer]_timerVars

\* time passes, and the host runs a timeout once it is due
SpecTimerLive == SpecTimer /\ WF_timerVars(Tick) /\ WF_timerVars(Fire)

\* ------------------------------------------------------------ state machine: Layer
\* the layer as a call finds it
LayerSt ==
  [levelList |-> levelList, _fixedLevelIndex |-> _fixedLevelIndex,
   events |-> <<>>, err |-> NoErr]

SetFixedLevel ==
  \E levelIndex \in LevelArgs(levelList) :
    LET r == setFixedLevel(LayerSt, levelIndex)
    IN /\ _fixedLevelIndex' = r._fixedLevelIndex
       /\ levelEvents' = r.events
       /\ levelErr' = r.err
       /\ UNCHANGED <<levelList, selectedLevel, vars, attachVars, timerVars, hotspotVars>>

\* visibleTiles and the other readers select the level
SelectLevel ==
  \E k \in 1..Len(levelList) :
    /\ selectedLevel' = <<_selectLevel(LayerSt, levelList[k])>>
    /\ levelEvents' = <<>>
    /\ levelErr' = NoErr
    /\ UNCHANGED <<levelList, _fixedLevelIndex, vars, attachVars, timerVars, hotspotVars>>

InitLayer ==
  /\ ControlsNew
  /\ debug = FALSE
  /\ AttachNew
  /\ TimerNew(Infinity)
  /\ \E n \in 1..MaxLevels : LayerNew(n)
  /\ HotspotContainerNew

NextLayer ==
  \/ SetFixedLevel
  \/ SelectLevel

SpecLayer == InitLayer /\ [][NextLayer]_layerVars

\* ------------------------------------------------------------ state machine: HotspotContainer
\* the container as a call finds it
HotspotSt ==
  [_hotspots |-> _hotspots, created |-> created,
   destroyedHotspots |-> destroyedHotspots, destroyed |-> containerDestroyed,
   events |-> 0, err |-> NoErr, diverges |-> FALSE]

ReturnHotspots(h) ==
  /\ _hotspots' = h._hotspots
  /\ created' = h.created
  /\ destroyedHotspots' = h.destroyedHotspots
  /\ hotspotEvents' = h.events
  /\ hotspotErr' = h.err
  /\ containerDestroyed' = h.destroyed
  /\ UNCHANGED <<vars, attachVars, timerVars, layerVars>>

\* the hotspots a caller can hold: those created here, and one of elsewhere
KnownHotspots == {ForeignHotspot} \cup (1..created)

CreateHotspot ==
  /\ ~containerDestroyed
  /\ created < MaxHotspots
  /\ ReturnHotspots(createHotspot(HotspotSt))

DestroyHotspot ==
  \E hotspot \in KnownHotspots :
    /\ ~containerDestroyed
    /\ ReturnHotspots(destroyHotspot(HotspotSt, hotspot))

DestroyContainer ==
  /\ ~containerDestroyed
  /\ ReturnHotspots(HotspotContainer_destroy(HotspotSt))

InitHotspots ==
  /\ ControlsNew
  /\ debug = FALSE
  /\ AttachNew
  /\ TimerNew(Infinity)
  /\ LayerNew(1)
  /\ HotspotContainerNew

NextHotspots ==
  \/ CreateHotspot
  \/ DestroyHotspot
  \/ DestroyContainer

SpecHotspots == InitHotspots /\ [][NextHotspots]_hotspotVars

\* ------------------------------------------------------------ properties
\* Properties of one call are stated over every reachable state and every call
\* the environment can make in it: After(op) is the call's outcome, with its
\* error and its trace.
After(op) == Call(St, op)

ActiveRecords(ms) == {i \in 1..Len(ms) : ms[i].enabled /\ ms[i].active}

\* instances of the records that are enabled, behind the engine-wide gate
Engaged(ms, en) ==
  IF en THEN {ms[i].instance : i \in {j \in 1..Len(ms) : ms[j].enabled}} ELSE {}

\* number of emissions of event ev in a trace
EmitCount(tr, ev) ==
  Cardinality({i \in 1..Len(tr) : tr[i].k = "emit" /\ tr[i].ev = ev})

\* the emitted events of a trace with their id argument, in order
RECURSIVE EmitsFrom(_, _)
EmitsFrom(tr, i) ==
  IF i > Len(tr) THEN <<>>
  ELSE IF tr[i].k = "emit" THEN <<<<tr[i].ev, tr[i].id>>>> \o EmitsFrom(tr, i + 1)
  ELSE EmitsFrom(tr, i + 1)

Emits(tr) == EmitsFrom(tr, 1)

\* the engine's fields are those of the state the call started in
Untouched(o) == Core(o) = Core(St)

\* C1: after every operation activeCount is the number of registered records
\* that are both enabled and active.
C1_ActiveCountIsSum == activeCount = Cardinality(ActiveRecords(methods))

\* one record enabled and active, another active but disabled: only the first counts
C1_Witness ==
  /\ activeCount = 1
  /\ \E i \in 1..Len(methods) : methods[i].enabled /\ methods[i].active
  /\ \E i \in 1..Len(methods) : ~methods[i].enabled /\ methods[i].active

\* the 'active' / 'inactive' emissions that follow a count change, from position i
\* of the trace up to the next count change
RECURSIVE ActivityEmitsFrom(_, _)
ActivityEmitsFrom(tr, i) ==
  IF i > Len(tr) \/ tr[i].k = "count" THEN <<>>
  ELSE IF tr[i].ev \in {"active", "inactive"}
       THEN <<tr[i].ev>> \o ActivityEmitsFrom(tr, i + 1)
       ELSE ActivityEmitsFrom(tr, i + 1)

EdgeEmissions(tr) ==
  \A i \in 1..Len(tr) :
    tr[i].k = "count" =>
      LET from == tr[i].from
          to == tr[i].s.activeCount
          emitted == ActivityEmitsFrom(tr, i + 1)
      IN IF tr[i].s.enabled /\ from = 0 /\ to = 1 THEN emitted = <<"active">>
         ELSE IF tr[i].s.enabled /\ from = 1 /\ to = 0 THEN emitted = <<"inactive">>
         ELSE emitted = <<>>

\* C2: with the engine enabled a change of activeCount 0 -> 1 emits exactly one
\* 'active', a change 1 -> 0 exactly one 'inactive', a change between counts >= 1
\* neither; with the engine disabled a change emits neither.
C2_EdgeEmissions == \A op \in Ops : EdgeEmissions(After(op).trace)

\* one delivery raises the count 0 -> 1 -> 2 with the engine enabled and emits
\* a single 'active'
C2_Witness ==
  /\ enabled
  /\ \E op \in InstanceOps("instanceActive") :
       LET tr == After(op).trace
       IN /\ \E i, j \in 1..Len(tr) :
               /\ tr[i].k = "count" /\ tr[i].from = 0 /\ tr[i].s.activeCount = 1
               /\ tr[j].k = "count" /\ tr[j].from = 1 /\ tr[j].s.activeCount = 2
          /\ EmitCount(tr, "active") = 1

\* C3: enable() while disabled emits 'active' iff activeCount > 0, disable() while
\* enabled emits 'inactive' iff activeCount > 0, no record changes; a toggle into
\* the state the engine is already in emits nothing and changes nothing.
C3_ToggleEmissions ==
  /\ \A op \in EngineOps("enable") :
       LET r == After(op)
       IN IF ~enabled
          THEN /\ r.enabled /\ r.err = NoErr
               /\ EmitCount(r.trace, "active") = (IF activeCount > 0 THEN 1 ELSE 0)
               /\ EmitCount(r.trace, "inactive") = 0
               /\ r.methods = methods /\ r.activeCount = activeCount /\ r.subs = subs
          ELSE r.trace = <<>> /\ r.err = NoErr /\ Untouched(r)
  /\ \A op \in EngineOps("disable") :
       LET r == After(op)
       IN IF enabled
          THEN /\ ~r.enabled /\ r.err = NoErr
               /\ EmitCount(r.trace, "inactive") = (IF activeCount > 0 THEN 1 ELSE 0)
               /\ EmitCount(r.trace, "active") = 0
               /\ r.methods = methods /\ r.activeCount = activeCount /\ r.subs = subs
          ELSE r.trace = <<>> /\ r.err = NoErr /\ Untouched(r)

\* the engine is disabled with two methods active: enable() emits 'active'
C3_Witness ==
  /\ ~enabled
  /\ activeCount = 2
  /\ \A op \in EngineOps("enable") :
       Emits(After(op).trace) = <<<<"active", NoId>>, <<"enabled", NoId>>>>

C5_UsageErrorsNoChange ==
  /\ \A op \in MethodOps("enableMethod") \cup MethodOps("disableMethod")
                 \cup MethodOps("unregisterMethod") :
       ~HasMethod(methods, op.id) =>
         LET r == After(op)
         IN r.err = ErrNoMethod /\ r.trace = <<>> /\ Untouched(r)
  /\ \A op \in RegisterOps :
       HasMethod(methods, op.id) =>
         LET r == After(op)
         IN r.err = ErrAlready /\ r.trace = <<>> /\ Untouched(r)

\* with one method active and another id unknown, registerMethod of the first id
\* with another instance and enableMethod of the unknown id both throw
C5_Witness ==
  /\ activeCount = 1
  /\ \E op \in RegisterOps :
       /\ HasMethod(methods, op.id)
       /\ MethodRec(methods, op.id).instance # op.inst
       /\ op.flag
       /\ After(op).err = ErrAlready
  /\ \E op \in MethodOps("enableMethod") :
       ~HasMethod(methods, op.id) /\ After(op).err = ErrNoMethod

\* C6 (as claimed): a group operation that fails on a stale id has changed
\* nothing: records, activeCount, Composer membership and subscriptions are as
\* before the call.
C6_GroupFailureNoPartialMutation ==
  \A op \in GroupOps("enableMethodGroup") \cup GroupOps("disableMethodGroup") :
    LET r == After(op)
    IN r.err = ErrNoMethod => Untouched(r)

\* C7: unregisterMethod(id) of a registered id ends in the activeCount, Composer
\* membership, subscriptions and emitted events of disableMethod(id) followed by
\* removal of the record; for an enabled, active record activeCount goes down by
\* one and 'inactive' is emitted iff that reaches 0 with the engine enabled.
C7_UnregisterIsDisableThenRemove ==
  \A op \in MethodOps("unregisterMethod") :
    HasMethod(methods, op.id) =>
      LET rec == MethodRec(methods, op.id)
          u == After(op)
          d == disableMethod(St, op.id)
      IN /\ u.err = NoErr
         /\ u.methods = DeleteMethod(d.methods, op.id)
         /\ u.activeCount = d.activeCount
         /\ u.composer = d.composer
         /\ u.subs = d.subs
         /\ Emits(u.trace) = Emits(d.trace)
         /\ (rec.enabled /\ rec.active) =>
              /\ u.activeCount = activeCount - 1
              /\ EmitCount(u.trace, "inactive") =
                   (IF enabled /\ u.activeCount = 0 THEN 1 ELSE 0)

\* unregistering the only enabled, active method brings the count to 0 and emits
\* 'inactive', then 'methodDisabled'
C7_Witness ==
  /\ enabled
  /\ activeCount = 1
  /\ Len(methods) = 2
  /\ \E op \in MethodOps("unregisterMethod") :
       /\ HasMethod(methods, op.id)
       /\ MethodRec(methods, op.id).enabled /\ MethodRec(methods, op.id).active
       /\ After(op).activeCount = 0
       /\ Emits(After(op).trace) = <<<<"inactive", NoId>>, <<"methodDisabled", op.id>>>>
       /\ ~composerHas(After(op).composer, MethodRec(methods, op.id).instance)

\* C8: an activity signal handled for a disabled record throws and changes
\* neither the active flag nor activeCount and emits nothing; enableMethod and
\* disableMethod never change an active flag; whatever the call, an active flag
\* changes only on a record that is enabled.
C8_ActiveOnlyWhileEnabled ==
  /\ \A op \in HandlerOps("_handleActive") \cup HandlerOps("_handleInactive") :
       ~MethodRec(methods, op.id).enabled =>
         LET r == After(op)
         IN /\ r.err = ErrDisabledEvent
            /\ r.methods = methods
            /\ r.activeCount = activeCount
            /\ r.trace = <<>>
  /\ \A op \in MethodOps("enableMethod") \cup MethodOps("disableMethod") :
       LET r == After(op)
       IN /\ Len(r.methods) = Len(methods)
          /\ \A i \in 1..Len(methods) : r.methods[i].active = methods[i].active
  /\ \A op \in Ops :
       \A ms \in {After(op).methods} :
         \A i \in 1..Len(methods) :
           ~methods[i].enabled =>
             \A j \in 1..Len(ms) :
               ms[j].id = methods[i].id => ms[j].active = methods[i].active

\* a disabled record that is still active gets an 'inactive' signal, which throws
C8_Witness ==
  \E op \in HandlerOps("_handleInactive") :
    /\ ~MethodRec(methods, op.id).enabled
    /\ MethodRec(methods, op.id).active
    /\ After(op).err = ErrDisabledEvent

\* ids whose handlers are on the 'active' and the 'inactive' list of some instance
Subscribed(sb) ==
  {id \in Ids : \E inst \in Instances :
     /\ \E i \in 1..Len(sb[inst].active) : sb[inst].active[i] = id
     /\ \E i \in 1..Len(sb[inst].inactive) : sb[inst].inactive[i] = id}

\* ids with a handler on some list of some instance
SubscribedAny(sb) ==
  {id \in Ids : \E inst \in Instances :
     \/ \E i \in 1..Len(sb[inst].active) : sb[inst].active[i] = id
     \/ \E i \in 1..Len(sb[inst].inactive) : sb[inst].inactive[i] = id}

EnabledIds(ms) == {ms[i].id : i \in {j \in 1..Len(ms) : ms[j].enabled}}

\* the engine state a listener or a frame may see: counter, Composer membership
\* and subscriptions all agree with the records
Consistent(s) ==
  /\ s.activeCount = Cardinality(ActiveRecords(s.methods))
  /\ s.composer = Engaged(s.methods, s.enabled)
  /\ Subscribed(s.subs) = EnabledIds(s.methods)
  /\ SubscribedAny(s.subs) = EnabledIds(s.methods)

\* C9 (as claimed): at every event the engine emits during enableMethod,
\* disableMethod, enable() or disable() (instances never shared), and at return,
\* activeCount, Composer membership and subscriptions agree with the records.
C9_EmissionsSeeConsistentState ==
  ~shared =>
    \A op \in MethodOps("enableMethod") \cup MethodOps("disableMethod")
                \cup EngineOps("enable") \cup EngineOps("disable") :
      LET r == After(op)
      IN /\ \A i \in 1..Len(r.trace) :
              r.trace[i].k = "emit" => Consistent(r.trace[i].s)
         /\ Consistent(Core(r))

SubscribedOn(a, l) ==
  /\ a._beforeRenderHandler # NoHandler
  /\ a._changeHandler # NoHandler
  /\ a.beforeRenderListeners =
       [k \in Loops |-> IF k = l THEN <<a._beforeRenderHandler>> ELSE <<>>]
  /\ a.changeListeners = <<[h |-> a._changeHandler, loop |-> l]>>

NotSubscribed(a) ==
  /\ a._beforeRenderHandler = NoHandler
  /\ a._changeHandler = NoHandler
  /\ a.beforeRenderListeners = [k \in Loops |-> <<>>]
  /\ a.changeListeners = <<>>

AttachmentOk(a) ==
  /\ a._attachedRenderLoop \in Loops \cup {NoLoop}
  /\ attached(a) <=> a._attachedRenderLoop \in Loops
  /\ IF attached(a) THEN SubscribedOn(a, a._attachedRenderLoop) ELSE NotSubscribed(a)

CallCount(calls, c) == Cardinality({i \in 1..Len(calls) : calls[i] = c})

CallsOf(calls, name) == {i \in 1..Len(calls) : calls[i][1] = name}

\* one 'beforeRender' of the attached loop, the Composer answering controlData
\* and the stage listing layers
FrameOk(controlData, layers) ==
  LET r == emitBeforeRender(AttSt, _attachedRenderLoop, controlData, layers)
  IN /\ r.err = NoErr
     /\ Cardinality(CallsOf(r.calls, "offsets")) = 1
     /\ Cardinality(CallsOf(r.calls, "renderOnNextFrame")) =
          (IF controlData.changing THEN 1 ELSE 0)
     /\ CallCount(r.calls, <<"renderOnNextFrame", _attachedRenderLoop>>) =
          (IF controlData.changing THEN 1 ELSE 0)
     /\ \A view \in Views :
          CallCount(r.calls, <<"updateWithControlParameters", view, controlData.offsets>>) =
            (IF view \in Range(layers) THEN 1 ELSE 0)
     /\ Cardinality(CallsOf(r.calls, "updateWithControlParameters")) =
          Cardinality(Range(layers))

\* C12: on each 'beforeRender' of the attached loop the engine queries the
\* Composer once, requests a frame exactly when the answer is changing, and
\* updates each distinct view among the stage's layers exactly once with the
\* answer's offsets, whatever the layers' views and the changing flag are.
C12_OneUpdatePerView ==
  attached(AttSt) =>
    \A controlData \in ControlData, layers \in LayerLists : FrameOk(controlData, layers)

\* a frame updated a view before; now two layers share that view and nothing changes
C12_Witness ==
  /\ attached(AttSt)
  /\ updatedViews_ # <<>>
  /\ \E offsets \in Offsets, layers \in LayerLists :
       /\ Len(layers) = 2
       /\ layers[1] = layers[2]
       /\ layers[1] = updatedViews_[1]
       /\ emitBeforeRender(AttSt, _attachedRenderLoop,
                           [changing |-> FALSE, offsets |-> offsets], layers).calls =
            <<<<"offsets">>, <<"updateWithControlParameters", layers[1], offsets>>>>

\* ------------------------------------------------------------ Timer properties
\* the only timeout the host holds is the one the timer has the handle of
OnePending(t) ==
  /\ \A p \in t.pending : p.id = t._handle
  /\ Cardinality(t.pending) <= 1
  /\ t._handle # NoTimeout => t.pending # {}

Unscheduled(t) == t._handle = NoTimeout /\ t.pending = {}

\* the timer is started and its timeout is set for exactly d after its start
DueAt(t, startTime, d) ==
  /\ t._startTime = startTime
  /\ t._duration = d
  /\ t._handle # NoTimeout
  /\ t.pending = {[id |-> t._handle, due |-> startTime + d]}

\* a timeout of the started timer is delivered in time and ends it with one event
FiresOnce(t, startTime, d) ==
  \A p \in t.pending, time \in 0..MaxTime :
    /\ p.due >= startTime + d
    /\ time >= p.due =>
         /\ fire(t, p, time).emitted = 1
         /\ ~started(fire(t, p, time))
         /\ Unscheduled(fire(t, p, time))

\* one call of setDuration(d) in the current state
SetDurationOk(d) ==
  LET r == setDuration(TimerSt, now, d)
      elapsed == now - _startTime
  IN /\ duration(r) = d
     /\ ~started(TimerSt) => r = [TimerSt EXCEPT !._duration = d]
     /\ started(TimerSt) /\ d = Infinity =>
          r.emitted = 0 /\ r._startTime = _startTime /\ Unscheduled(r)
     /\ started(TimerSt) /\ d < Infinity /\ elapsed >= d =>
          r.emitted = 1 /\ ~started(r) /\ Unscheduled(r)
     /\ started(TimerSt) /\ d < Infinity /\ elapsed < d =>
          r.emitted = 0 /\ DueAt(r, _startTime, d) /\ FiresOnce(r, _startTime, d)

\* the started timer with a finite duration runs undisturbed to its one timeout
RunsOut(call) ==
  \A e \in {0, 1} :
    (lastCall = call /\ epoch = e /\ _startTime # NoTime /\ _duration < Infinity)
      ~> (epoch # e \/ (timeouts = 1 /\ _startTime = NoTime /\ pending = {}
                          /\ now >= lastStart + _duration))

\* C13: setDuration(d) on a started timer moves the timeout to d after the last
\* start(): with d or more elapsed the event is emitted inside the call and the
\* timer is stopped on return; with less elapsed nothing is emitted by the call,
\* the one timeout left is due at start + d and its delivery emits the event,
\* which then does happen unless another call comes first; with d = Infinity no
\* timeout is left and the timer stays started.  On a stopped timer only
\* duration() changes.
C13_SetDurationReschedules ==
  /\ [](\A d \in Durations : SetDurationOk(d))
  /\ [](_startTime # NoTime => _startTime = lastStart)
  /\ RunsOut("setDuration")

\* started with duration 2 and one unit elapsed: setDuration(1) emits inside the
\* call, setDuration(2) leaves the timeout at start + 2
C13_Witness ==
  /\ started(TimerSt)
  /\ _duration = 2
  /\ now - _startTime = 1
  /\ setDuration(TimerSt, now, 1).emitted = 1
  /\ ~started(setDuration(TimerSt, now, 1))
  /\ DueAt(setDuration(TimerSt, now, 2), _startTime, 2)

\* a delivery in the current state emits at most one event, to a started timer
\* whose duration has passed since the last start()
NotEarly ==
  \A p \in pending :
    p.due <= now =>
      /\ fire(TimerSt, p, now).emitted <= 1
      /\ fire(TimerSt, p, now).emitted = 1 =>
           started(TimerSt) /\ now >= lastStart + _duration

\* start() in the current state of a started timer, against stop() then start()
RestartOk ==
  LET r == start(TimerSt, now)
      q == start(stop(TimerSt), now)
  IN started(TimerSt) =>
       /\ r._startTime = now /\ q._startTime = now
       /\ r._duration = q._duration
       /\ r.emitted = 0 /\ q.emitted = 0
       /\ OnePending(r) /\ OnePending(q)
       /\ _duration = Infinity => Unscheduled(r) /\ Unscheduled(q)
       /\ _duration < Infinity =>
            /\ DueAt(q, now, _duration)
            /\ \A p \in r.pending, time \in now..MaxTime :
                 time >= p.due =>
                   IF time < now + _duration
                   THEN /\ fire(r, p, time).emitted = 0
                        /\ DueAt(fire(r, p, time), now, _duration)
                   ELSE /\ fire(r, p, time).emitted = 1
                        /\ ~started(fire(r, p, time))
                        /\ Unscheduled(fire(r, p, time))

\* C14: start() on a started timer takes the new start time as stop() then
\* start() does; the timeout left from the earlier start() emits nothing when
\* it runs before the duration has passed since the new start and sets the
\* timeout for exactly then; no event is emitted earlier than the duration
\* after the last start(), at most one is emitted per start(), and one is
\* emitted unless another call comes first.
C14_RestartResets ==
  /\ [](RestartOk /\ NotEarly /\ timeouts <= 1)
  /\ [](_startTime # NoTime => _startTime = lastStart /\ timeouts = 0)
  /\ RunsOut("restart")

\* restarted one unit after the start: the timeout of the first start() is still
\* the pending one and is due before the duration has passed since the restart
C14_Witness ==
  /\ lastCall = "restart"
  /\ _duration = 2
  /\ _startTime = 1
  /\ \E p \in pending : p.due = 2 /\ now = 2 /\ fire(TimerSt, p, now).emitted = 0

\* one call of stop() in the current state
StopOk ==
  LET r == stop(TimerSt)
  IN /\ ~started(r)
     /\ Unscheduled(r)
     /\ r.emitted = 0
     /\ duration(r) = _duration
     /\ ~started(TimerSt) => r = TimerSt

\* C15: stop() leaves the timer stopped with no timeout scheduled and emits
\* nothing; until start() is called again the timer stays so, the host holds no
\* timeout of it, setDuration emits nothing and the count of 'timeout' events
\* does not move; stop() on a stopped timer changes nothing.
C15_StopCancels ==
  /\ [](StopOk /\ OnePending(TimerSt))
  /\ [](afterStop =>
          /\ ~started(TimerSt)
          /\ Unscheduled(TimerSt)
          /\ \A d \in Durations : setDuration(TimerSt, now, d).emitted = 0)
  /\ [][afterStop /\ afterStop' => timeouts' = timeouts]_timerVars

\* stopped before the timeout of a finite duration; the duration has passed
\* since the start and no event was emitted
C15_Witness ==
  /\ afterStop
  /\ lastStart # NoTime
  /\ _duration < Infinity
  /\ _duration > 0
  /\ now > lastStart + _duration
  /\ timeouts = 0

\* C16: a timer is stopped when constructed; a timer started with a finite
\* duration emits, unless a call of start, stop or setDuration comes first, one
\* 'timeout', and is then stopped with no timeout scheduled; events are emitted
\* to a started timer only, at most one per start(), and a stopped timer has no
\* timeout scheduled.
C16_EventuallyOneTimeout ==
  /\ ~started(TimerSt) /\ Unscheduled(TimerSt)
  /\ \A e \in {0, 1} :
       (epoch = e /\ started(TimerSt) /\ _duration < Infinity)
         ~> (epoch # e \/ (timeouts = 1 /\ ~started(TimerSt) /\ Unscheduled(TimerSt)))
  /\ [](timeouts <= 1 /\ (timeouts = 1 => ~started(TimerSt)))
  /\ [](~started(TimerSt) => Unscheduled(TimerSt))
  /\ [][timeouts' > timeouts => started(TimerSt) /\ timeouts' = 1]_timerVars

\* started once, left alone, and the event came when the duration had passed
C16_Witness ==
  /\ lastCall = "start"
  /\ timeouts = 1
  /\ _duration > 0
  /\ _duration < Infinity
  /\ now = lastStart + _duration
  /\ ~started(TimerSt)
  /\ Unscheduled(TimerSt)

\* ------------------------------------------------------------ Layer properties
InRange(i) == i \in 0..(Len(levelList) - 1)

\* one call of setFixedLevel(levelIndex) in the current state
SetFixedLevelOk(levelIndex) ==
  LET r == setFixedLevel(LayerSt, levelIndex)
  IN /\ levelIndex # NoLevel /\ ~InRange(levelIndex) =>
          r.err = ErrOutOfRange /\ fixedLevel(r) = _fixedLevelIndex /\ r.events = <<>>
     /\ (levelIndex = NoLevel \/ InRange(levelIndex)) /\ levelIndex # _fixedLevelIndex =>
          r.err = NoErr /\ fixedLevel(r) = levelIndex /\ r.events = <<levelIndex>>
     /\ levelIndex = _fixedLevelIndex =>
          r.err = NoErr /\ fixedLevel(r) = _fixedLevelIndex /\ r.events = <<>>

IsEnabled(ms, id) == HasMethod(ms, id) /\ MethodRec(ms, id).enabled

\* the positions of the trace of emitted events that carry ev for id
ToggleEvents(es, ev, id) == {i \in 1..Len(es) : es[i] = <<ev, id>>}

\* ev for id is emitted once, after every other event of the call
OnceAndLast(es, ev, id) == ToggleEvents(es, ev, id) = {Len(es)}

\* one call that leaves the records ms and emits es: what it emits about id
\* against what it does to id's flag
FlagEventsOk(ms, es, id) ==
  IF IsEnabled(ms, id)
  THEN /\ ToggleEvents(es, "methodDisabled", id) = {}
       /\ IF IsEnabled(methods, id) THEN ToggleEvents(es, "methodEnabled", id) = {}
          ELSE OnceAndLast(es, "methodEnabled", id)
  ELSE /\ ToggleEvents(es, "methodEnabled", id) = {}
       /\ IF IsEnabled(methods, id) THEN OnceAndLast(es, "methodDisabled", id)
          ELSE ToggleEvents(es, "methodDisabled", id) = {}

\* the calls that go through enableMethod or disableMethod
ToggleCalls ==
  RegisterOps \cup MethodOps("unregisterMethod") \cup MethodOps("enableMethod")
    \cup MethodOps("disableMethod")

\* one call that goes through enableMethod or disableMethod
ToggleOk(op) ==
  \A r \in {After(op)} :
    /\ op.op = "enableMethod" /\ IsEnabled(methods, op.id) =>
         Untouched(r) /\ r.trace = <<>> /\ r.err = NoErr
    /\ op.op = "disableMethod" /\ HasMethod(methods, op.id) /\ ~IsEnabled(methods, op.id) =>
         Untouched(r) /\ r.trace = <<>> /\ r.err = NoErr
    /\ \A es \in {Emits(r.trace)} : \A id \in Ids : FlagEventsOk(r.methods, es, id)

\* C18: in every reachable state and for every call that goes through them,
\* enableMethod of an enabled record and disableMethod of a disabled record
\* return without an error, leave records, counter, Composer and subscriptions
\* as they were and emit nothing; a call that changes the enabled flag of a
\* record emits 'methodEnabled' (or 'methodDisabled') for that id exactly once
\* and as its last event, and a call that does not change it emits neither.
C18_ToggleNoOpAndEvent == \A op \in ToggleCalls : ToggleOk(op)

\* an enabled active record next to a disabled active one, the engine enabled:
\* enabling the first again does nothing, enabling the second emits only
\* 'methodEnabled' (the counter is 1 already), and disabling the first emits
\* 'inactive' and then 'methodDisabled'
C18_Witness ==
  /\ enabled
  /\ \E a, b \in Ids :
       /\ IsEnabled(methods, a) /\ MethodRec(methods, a).active
       /\ HasMethod(methods, b) /\ ~IsEnabled(methods, b) /\ MethodRec(methods, b).active
       /\ After(Op("enableMethod", a, 0, FALSE)).trace = <<>>
       /\ Emits(After(Op("enableMethod", b, 0, FALSE)).trace) = <<<<"methodEnabled", b>>>>
       /\ Emits(After(Op("disableMethod", a, 0, FALSE)).trace) =
            <<<<"inactive", NoId>>, <<"methodDisabled", a>>>>

\* how often the handler of id is on a list
Times(list, id) == Cardinality({i \in 1..Len(list) : list[i] = id})

\* the handlers of every id are once on the lists of its instance while its
\* record is enabled, and on no list otherwise
HandlersFollowFlag(s) ==
  \A id \in Ids, inst \in Instances :
    LET n == IF IsEnabled(s.methods, id) /\ MethodRec(s.methods, id).instance = inst
             THEN 1 ELSE 0
    IN Times(s.subs[inst].active, id) = n /\ Times(s.subs[inst].inactive, id) = n

\* C19: after every operation (each reachable state is the state some operation
\* returned or threw in) the activeHandler and inactiveHandler of an id are
\* subscribed, once, to the instance of its record exactly while the record is
\* registered and enabled, whether the engine is enabled or not; an id that is
\* not registered has no handler anywhere; an activity event of an instance
\* therefore reaches enabled records only and no delivery is refused.
C19_SubscribedIffEnabled ==
  /\ HandlersFollowFlag(St)
  /\ \A op \in InstanceOps("instanceActive") \cup InstanceOps("instanceInactive") :
       After(op).err = NoErr

\* the engine is disabled; one record is enabled and subscribed, another is
\* registered but disabled; unregistering the first removes its handlers
C19_Witness ==
  /\ ~enabled
  /\ \E a, b \in Ids :
       /\ IsEnabled(methods, a)
       /\ HasMethod(methods, b) /\ ~IsEnabled(methods, b)
       /\ Times(subs[MethodRec(methods, a).instance].active, a) = 1
       /\ Times(subs[MethodRec(methods, b).instance].active, b) = 0
       /\ a \notin SubscribedAny(After(Op("unregisterMethod", a, 0, FALSE)).subs)

\* ------------------------------------------------------------ HotspotContainer properties
\* the hotspots created and not destroyed, in the order of their creation
RECURSIVE Remaining(_)
Remaining(n) ==
  IF n = 0 THEN <<>>
  ELSE IF n \in destroyedHotspots THEN Remaining(n - 1)
  ELSE Append(Remaining(n - 1), n)

\* list without its element x, the order kept
Without(list, x) == SelectSeq(list, LAMBDA y : y # x)

\* one call of destroyHotspot(hotspot) in the current state
DestroyHotspotOk(hotspot) ==
  LET r == destroyHotspot(HotspotSt, hotspot)
  IN IF hotspot \in Range(_hotspots)
     THEN /\ r.err = NoErr
          /\ r.events = 1
          /\ listHotspots(r) = Without(_hotspots, hotspot)
          /\ r.destroyedHotspots = destroyedHotspots \cup {hotspot}
          /\ ~hasHotspot(r, hotspot)
     ELSE /\ r.err = ErrNoSuchHotspot
          /\ r.events = 0
          /\ listHotspots(r) = _hotspots
          /\ r.destroyedHotspots = destroyedHotspots

\* C20: listHotspots() is the hotspots created and not destroyed, in creation
\* order, and hasHotspot(h) holds exactly for its members; createHotspot
\* appends the new hotspot and emits one 'hotspotsChange'; destroyHotspot of a
\* member removes it, destroys it and emits one 'hotspotsChange'; destroyHotspot
\* of a hotspot not in the list (of elsewhere, or destroyed before) throws
\* 'No such hotspot', changes nothing and emits nothing; destroy() ends, without
\* an error, with every hotspot that was in the list destroyed.
C20_HotspotList ==
  IF containerDestroyed THEN destroyedHotspots = 1..created
  ELSE
    /\ listHotspots(HotspotSt) = Remaining(created)
    /\ \A hotspot \in KnownHotspots :
         /\ hasHotspot(HotspotSt, hotspot) <=> hotspot \in Range(listHotspots(HotspotSt))
         /\ DestroyHotspotOk(hotspot)
    /\ createHotspot(HotspotSt).events = 1
    /\ createHotspot(HotspotSt).err = NoErr
    /\ listHotspots(createHotspot(HotspotSt)) = Append(_hotspots, created + 1)
    /\ ~HotspotContainer_destroy(HotspotSt).diverges
    /\ HotspotContainer_destroy(HotspotSt).err = NoErr
    /\ HotspotContainer_destroy(HotspotSt).destroyed
    /\ HotspotContainer_destroy(HotspotSt)._hotspots = <<>>
    /\ HotspotContainer_destroy(HotspotSt).destroyedHotspots =
         destroyedHotspots \cup Range(_hotspots)
    /\ HotspotContainer_destroy(HotspotSt).events = Len(_hotspots)
    /\ hotspotErr # NoErr => hotspotEvents = 0

\* three hotspots created, the middle one destroyed; destroying it again has
\* just thrown, and so does destroying a hotspot of another container
C20_Witness ==
  /\ ~containerDestroyed
  /\ created = 3
  /\ _hotspots = <<1, 3>>
  /\ hotspotErr = ErrNoSuchHotspot
  /\ destroyHotspot(HotspotSt, 2).err = ErrNoSuchHotspot
  /\ destroyHotspot(HotspotSt, ForeignHotspot).err = ErrNoSuchHotspot
  /\ listHotspots(destroyHotspot(HotspotSt, 1)) = <<3>>
  /\ HotspotContainer_destroy(HotspotSt).events = 2

\* ------------------------------------------------------------------- C21
\* the engine's operations and the activity events of the instances
ActivityCalls ==
  RegisterOps \cup MethodOps("unregisterMethod") \cup MethodOps("enableMethod")
    \cup MethodOps("disableMethod") \cup EngineOps("enable") \cup EngineOps("disable")
    \cup InstanceOps("instanceActive") \cup InstanceOps("instanceInactive")

\* es continues a history whose last activity event was prev (a history
\* without one counts as ending in 'inactive', so that the first event ever has
\* to be 'active'): no event repeats the one before it
Alternates(prev, es) ==
  /\ es # <<>> => es[1] # prev
  /\ \A i \in 1..(Len(es) - 1) : es[i + 1] # es[i]

\* C21: between operations the last of 'active' / 'inactive' the engine has
\* emitted is 'active' exactly when the engine is enabled and activeCount > 0
\* (no emission yet counts as 'inactive'), and the activity events of every
\* operation and instance event continue the history in strict alternation,
\* the first one ever being 'active'
C21_ActivityAlternates ==
  /\ lastActivity = "active" <=> (enabled /\ activeCount > 0)
  /\ \A op \in ActivityCalls :
       Alternates(lastActivity, ActivityEvents(After(op).trace))

\* two active records and an enabled engine whose last activity event is
\* 'active': disabling the engine emits 'inactive', and an instance going
\* inactive emits nothing
C21_Witness ==
  /\ lastActivity = "active"
  /\ enabled
  /\ activeCount = 2
  /\ ActivityEvents(After(Op("disable", NoId, 0, FALSE)).trace) = <<"inactive">>
  /\ \E op \in InstanceOps("instanceInactive") :
       /\ After(op).activeCount = 1
       /\ ActivityEvents(After(op).trace) = <<>>

\* ------------------------------------------------------------------- C24
\* the boolean value of opts.enabled when the option is given, true otherwise
RequestedEnabled(op) ==
  IF op.given /\ op.enabled # "undefined" THEN op.enabled = "true" ELSE TRUE

\* C24: right after construction enabled() is the boolean value of
\* opts.enabled when the option is given and true when it is absent (an
\* engine built with enabled: false is disabled, its Composer empty),
\* activeCount is 0, no method is registered and no render loop is attached
C24_ConstructedAsRequested ==
  fresh =>
    /\ Controls_enabled(St) = RequestedEnabled(opts)
    /\ composer = {}
    /\ activeCount = 0
    /\ methods = <<>>
    /\ _attachedRenderLoop = NoLoop

\* ------------------------------------------------------------------- C23
\* the records that hold the instance
Holders(ms, inst) == {i \in 1..Len(ms) : ms[i].instance = inst}

\* C23: between operations an instance registered under two ids is a member
\* of the Composer exactly when the engine is enabled and at least one of the
\* records holding it is enabled; in particular it is a member when one of
\* its two ids is enabled and the other is not
C23_SharedInstanceMembership ==
  \A inst \in Instances :
    Cardinality(Holders(methods, inst)) >= 2 =>
      (composerHas(composer, inst) <=>
         enabled /\ \E i \in Holders(methods, inst) : methods[i].enabled)

\* ------------------------------------------------------------------- C22
\* a listener of one of the engine's events that calls enableMethod,
\* disableMethod, enable or disable as soon as it is called
EngineEvents ==
  {"active", "inactive", "methodEnabled", "methodDisabled", "enabled", "disabled"}

ReentrantOps ==
  MethodOps("enableMethod") \cup MethodOps("disableMethod")
    \cup EngineOps("enable") \cup EngineOps("disable")

Listeners == [ev : EngineEvents, op : ReentrantOps]

\* the engine is as its operations leave it when no listener calls back
Intact ==
  /\ HandlersFollowFlag(St)
  /\ activeCount = Cardinality(ActiveRecords(methods))
  /\ ~shared => composer = Engaged(methods, enabled)

\* the operation runs with the listener on the engine. The engine is followed
\* up to the first operation that leaves it other than intact
DoListened(l, op) ==
  /\ Intact
  /\ Return(Call([St EXCEPT !.listener = l], op))

ListenedRegisterMethod == \E l \in Listeners, op \in RegisterOps : DoListened(l, op)

ListenedUnregisterMethod ==
  \E l \in Listeners, op \in MethodOps("unregisterMethod") : DoListened(l, op)

ListenedEnableMethod ==
  \E l \in Listeners, op \in MethodOps("enableMethod") : DoListened(l, op)

ListenedDisableMethod ==
  \E l \in Listeners, op \in MethodOps("disableMethod") : DoListened(l, op)

ListenedEnable == \E l \in Listeners, op \in EngineOps("enable") : DoListened(l, op)

ListenedDisable == \E l \in Listeners, op \in EngineOps("disable") : DoListened(l, op)

ListenedInstanceActive ==
  \E l \in Listeners, op \in InstanceOps("instanceActive") : DoListened(l, op)

ListenedInstanceInactive ==
  \E l \in Listeners, op \in InstanceOps("instanceInactive") : DoListened(l, op)

NextReentrant ==
  \/ ListenedRegisterMethod
  \/ ListenedUnregisterMethod
  \/ ListenedEnableMethod
  \/ ListenedDisableMethod
  \/ ListenedEnable
  \/ ListenedDisable
  \/ ListenedInstanceActive
  \/ ListenedInstanceInactive

SpecReentrant == Init /\ [][NextReentrant]_vars

\* C22: whatever the listeners of the engine's events call back into the
\* engine (enableMethod, disableMethod, enable, disable), when the outermost
\* call has returned every record is subscribed to its instance exactly when
\* it is enabled, the Composer holds the instances of the records that are
\* enabled while the engine is, and activeCount is the number of enabled and
\* active records
C22_ReentrantCallsKeepInvariants ==
  /\ \A i \in 1..Len(methods) :
       LET m == methods[i]
       IN  /\ m.enabled <=> IndexOf(subs[m.instance].active, m.id, 1) # 0
           /\ m.enabled <=> IndexOf(subs[m.instance].inactive, m.id, 1) # 0
  /\ (~shared => composer = Engaged(methods, enabled))
  /\ activeCount = Cardinality(ActiveRecords(methods))

\* ------------------------------------------------------------------- C25
\* a listener of 'timeout' that calls start(), stop() or setDuration(d) as soon
\* as it is called, or nothing
TimerListeners ==
  {NoTimerListener, [op |-> "start", d |-> 0], [op |-> "stop", d |-> 0]}
    \cup {[op |-> "setDuration", d |-> d] : d \in Durations}

\* the listener of the call that left r has made the call `name`
Reacted(r, name) == r.reentries > 0 /\ r.listener.op = name

\* the call has returned: the timer is left as r, and the history follows the
\* call the listener made, if it made one
ReturnListened(r) ==
  /\ ReturnTimer(r)
  /\ timeouts' = IF Reacted(r, "start") THEN 0 ELSE timeouts + r.emitted
  /\ lastStart' = IF Reacted(r, "start") THEN now ELSE lastStart
  /\ afterStop' = IF Reacted(r, "start") THEN FALSE
                  ELSE IF Reacted(r, "stop") THEN TRUE ELSE afterStop

\* setDuration(d) with a listener on the timer
ListenedSetDuration ==
  \E d \in Durations, l \in TimerListeners :
    LET r == setDuration([TimerSt EXCEPT !.listener = l], now, d)
    IN  /\ CallTime
        /\ ReturnListened(r)
        /\ lastCall' = IF r.reentries > 0 THEN l.op ELSE "setDuration"
        /\ epoch' = 1 - epoch

\* the host runs a timeout that is due, with a listener on the timer
ListenedFire ==
  \E p \in pending, l \in TimerListeners :
    LET r == fire([TimerSt EXCEPT !.listener = l], p, now)
    IN  /\ p.due <= now
        /\ l = NoTimerListener \/ CallTime
        /\ ReturnListened(r)
        /\ lastCall' = IF r.reentries > 0 THEN l.op ELSE lastCall
        /\ epoch' = IF r.reentries > 0 THEN 1 - epoch ELSE epoch

NextTimerReentrant ==
  \/ Start
  \/ Stop
  \/ ListenedSetDuration
  \/ Tick
  \/ ListenedFire

SpecTimerReentrant == InitTimer /\ [][NextTimerReentrant]_timerVars

\* the calls that can emit 'timeout' in this state, each with each listener
EmittingCalls ==
  {fire([TimerSt EXCEPT !.listener = l], p, now) :
     p \in {q \in pending : q.due <= now}, l \in TimerListeners}
    \cup {setDuration([TimerSt EXCEPT !.listener = l], now, d) :
            d \in Durations, l \in TimerListeners}

\* C25: in every state of the timer, whatever a listener of 'timeout' has
\* called, a timeout is pending only while the timer is started; every
\* 'timeout' is emitted while the timer is started and no sooner than
\* duration() after the last start(); and a timeout whose listener calls
\* start() leaves the timer started, with a timeout due one duration later
C25_TimerStateWithListeners ==
  /\ ~started(TimerSt) => (_handle = NoTimeout /\ pending = {})
  /\ \A r \in EmittingCalls : \A i \in 1..Len(r.log) :
       /\ r.log[i]._startTime # NoTime
       /\ r.log[i].at - r.log[i]._startTime >= r.log[i]._duration
  /\ \A r \in EmittingCalls :
       Reacted(r, "start") =>
         /\ started(r)
         /\ r._duration < Infinity =>
              \E q \in r.pending : q.id = r._handle /\ q.due = now + r._duration
====
